---- MODULE Spec2Model ----
(***************************************************************************)
(* CTFd/utils/lms.py: the LMS attribute provider                           *)
(* (get_lms_ctfd_data_for_email) and the safe boolean attribute-expression *)
(* evaluator (SafeAttrs, SafeEvalVisitor, eval_attr_logic).                *)
(*                                                                         *)
(* An expression is a sequence of lexemes (the blank " " is a lexeme of    *)
(* its own).  ParseEval models ast.parse(expression, mode="eval") on that  *)
(* sequence, SafeEvalVisitor the allow-list walk, Eval the evaluation of   *)
(* the compiled tree by the host interpreter.                              *)
(***************************************************************************)
EXTENDS Integers, Sequences, FiniteSets, TLC

VARIABLES
    pc,            \* position inside eval_attr_logic
    expression,    \* argument `expression`
    attributes,    \* the caller's mapping (argument `attributes`)
    attrs0,        \* the caller's mapping as it was when the call was made
    names,         \* the dict made by attributes.copy() (line 125)
    tree,          \* result of ast.parse
    value,         \* result of eval(...) (line 128)
    err,           \* exception raised inside the try block ("none" if none)
    ret,           \* value returned to the caller
    raised,        \* exception that left eval_attr_logic ("none" if none)
    steps,         \* statements of the try block executed so far
    logged,        \* errors handed to log() by this call
    lms_env,       \* os.environ: LMS_BASE_URL and LMS_CTFD_TOKEN
    lms_in,        \* email, request and remote answer of the last provider call
    lms_out,       \* outcome of get_lms_ctfd_data_for_email
    cache          \* entries of @cache.memoize(timeout=5)

evalVars == <<pc, expression, attributes, attrs0, names, tree, value, err, ret,
              raised, steps, logged>>
lmsVars == <<lms_env, lms_in, lms_out, cache>>
vars == <<pc, expression, attributes, attrs0, names, tree, value, err, ret,
          raised, steps, logged, lms_env, lms_in, lms_out, cache>>

(***************************************************************************)
(* Bounds of the model.                                                    *)
(***************************************************************************)
\* longest run of blanks put before or after an expression
MaxWs == 1
\* longest expression drawn lexeme by lexeme from RawLexemes
MaxRawLen == 3
\* largest number used as attribute value
MaxLevel == 3

(***************************************************************************)
(* Host values: None, bool, int, str (a sequence of code points), list,    *)
(* tuple, dict (a function from hashable keys to values).                  *)
(***************************************************************************)
None == [t |-> "none", v |-> 0]
PyBool(b) == [t |-> "bool", v |-> b]
PyInt(n) == [t |-> "int", v |-> n]
PyStr(s) == [t |-> "str", v |-> s]
PyList(s) == [t |-> "list", v |-> s]
PyTuple(s) == [t |-> "tuple", v |-> s]
PyDict(f) == [t |-> "dict", v |-> f]

\* code points of the letters used in string values
s_pro == <<112, 114, 111>>
s_p == <<112>>
s_k == <<107>>

\* the outcome of evaluating something: the value, or the exception raised;
\* ev records what the evaluation did on the way (the names it loaded, the
\* comparisons it carried out)
Ok(v) == [err |-> "none", val |-> v, ev |-> {}]
Raise(kind) == [err |-> kind, val |-> None, ev |-> {}]
With(r, ev) == [r EXCEPT !.ev = @ \cup ev]
LoadEvent(id, v) == [e |-> "load", op |-> id, l |-> v, r |-> None]
CompareEvent(op, a, b) == [e |-> "compare", op |-> op, l |-> a, r |-> b]

IsNum(a) == a.t \in {"bool", "int"}
\* bool is a subclass of int: True is 1 and False is 0
Num(a) == IF a.t = "bool" THEN (IF a.v THEN 1 ELSE 0) ELSE a.v

\* bool(x): None, False, 0 and empty str/list/tuple/dict are falsy
Truthy(a) ==
    CASE a.t = "none" -> FALSE
      [] a.t = "bool" -> a.v
      [] a.t = "int" -> a.v # 0
      [] a.t \in {"str", "list", "tuple"} -> Len(a.v) > 0
      [] a.t = "dict" -> DOMAIN a.v # {}

\* hash/eq class of a dict key: True and 1 are the same key
RECURSIVE Hashable(_)
Hashable(a) ==
    \/ a.t \in {"none", "bool", "int", "str"}
    \/ a.t = "tuple" /\ \A i \in 1..Len(a.v) : Hashable(a.v[i])
RECURSIVE Key(_)
Key(a) ==
    CASE a.t = "bool" -> PyInt(Num(a))
      [] a.t = "tuple" -> PyTuple([i \in 1..Len(a.v) |-> Key(a.v[i])])
      [] OTHER -> a

RECURSIVE PyEq(_, _)
\* a == b
PyEq(a, b) ==
    CASE IsNum(a) /\ IsNum(b) -> Num(a) = Num(b)
      [] a.t # b.t -> FALSE
      [] a.t \in {"none"} -> TRUE
      [] a.t = "str" -> a.v = b.v
      [] a.t \in {"list", "tuple"} ->
            /\ Len(a.v) = Len(b.v)
            /\ \A i \in 1..Len(a.v) : PyEq(a.v[i], b.v[i])
      [] a.t = "dict" ->
            /\ DOMAIN a.v = DOMAIN b.v
            /\ \A k \in DOMAIN a.v : PyEq(a.v[k], b.v[k])

\* index of the first position where two sequences differ, 0 if one is a
\* prefix of the other
RECURSIVE FirstDiff(_, _, _)
FirstDiff(s, u, i) ==
    IF i > Len(s) \/ i > Len(u) THEN 0
    ELSE IF ~PyEq(s[i], u[i]) THEN i
    ELSE FirstDiff(s, u, i + 1)

IntOrder(op, m, n) ==
    CASE op = "Lt" -> m < n
      [] op = "LtE" -> m <= n
      [] op = "Gt" -> m > n
      [] op = "GtE" -> m >= n

OrderOps == {"Lt", "LtE", "Gt", "GtE"}

\* an ordering that yields False instead of raising on operands it cannot order
PyOrder_no_raise(op, a, b) ==
    IF IsNum(a) /\ IsNum(b) THEN Ok(PyBool(IntOrder(op, Num(a), Num(b))))
    ELSE Ok(PyBool(FALSE))

RECURSIVE PyOrder(_, _, _)
\* a < b, a <= b, a > b, a >= b: TypeError unless both are numbers, both
\* str, both list or both tuple
PyOrder(op, a, b) ==
    CASE IsNum(a) /\ IsNum(b) -> Ok(PyBool(IntOrder(op, Num(a), Num(b))))
      [] a.t = b.t /\ a.t = "str" ->
            LET d == FirstDiff([i \in 1..Len(a.v) |-> PyInt(a.v[i])],
                               [i \in 1..Len(b.v) |-> PyInt(b.v[i])], 1)
            IN  IF d = 0 THEN Ok(PyBool(IntOrder(op, Len(a.v), Len(b.v))))
                ELSE Ok(PyBool(IntOrder(op, a.v[d], b.v[d])))
      [] a.t = b.t /\ a.t \in {"list", "tuple"} ->
            LET d == FirstDiff(a.v, b.v, 1)
            IN  IF d = 0 THEN Ok(PyBool(IntOrder(op, Len(a.v), Len(b.v))))
                ELSE PyOrder(op, a.v[d], b.v[d])
      [] OTHER -> Raise("TypeError")

\* `sub` occurs in `s` as a contiguous run
IsSubstring(sub, s) ==
    \E i \in 0..(Len(s) - Len(sub)) :
        \A j \in 1..Len(sub) : s[i + j] = sub[j]

\* a membership test that accepts list, tuple and dict only
PyContains_collections_only(container, item) ==
    CASE container.t \in {"list", "tuple"} ->
            Ok(PyBool(\E i \in 1..Len(container.v) : PyEq(container.v[i], item)))
      [] container.t = "dict" ->
            IF Hashable(item) THEN Ok(PyBool(Key(item) \in DOMAIN container.v))
            ELSE Raise("TypeError")
      [] OTHER -> Raise("TypeError")

\* item in container
PyContains(container, item) ==
    CASE container.t \in {"list", "tuple"} ->
            Ok(PyBool(\E i \in 1..Len(container.v) : PyEq(container.v[i], item)))
      [] container.t = "dict" ->
            IF Hashable(item) THEN Ok(PyBool(Key(item) \in DOMAIN container.v))
            ELSE Raise("TypeError")
      [] container.t = "str" ->
            IF item.t = "str" THEN Ok(PyBool(IsSubstring(item.v, container.v)))
            ELSE Raise("TypeError")
      [] OTHER -> Raise("TypeError")

\* obj[index]
PySubscript(obj, index) ==
    CASE obj.t \in {"list", "tuple", "str"} ->
            IF ~IsNum(index) THEN Raise("TypeError")
            ELSE LET n == IF Num(index) < 0 THEN Num(index) + Len(obj.v)
                          ELSE Num(index)
                 IN  IF n < 0 \/ n >= Len(obj.v) THEN Raise("IndexError")
                     ELSE IF obj.t = "str" THEN Ok(PyStr(<<obj.v[n + 1]>>))
                     ELSE Ok(obj.v[n + 1])
      [] obj.t = "dict" ->
            IF ~Hashable(index) THEN Raise("TypeError")
            ELSE IF Key(index) \in DOMAIN obj.v THEN Ok(obj.v[Key(index)])
            ELSE Raise("KeyError")
      [] OTHER -> Raise("TypeError")

\* a + b
PyAdd(a, b) ==
    CASE IsNum(a) /\ IsNum(b) -> Ok(PyInt(Num(a) + Num(b)))
      [] a.t = b.t /\ a.t = "str" -> Ok(PyStr(a.v \o b.v))
      [] a.t = b.t /\ a.t = "list" -> Ok(PyList(a.v \o b.v))
      [] a.t = b.t /\ a.t = "tuple" -> Ok(PyTuple(a.v \o b.v))
      [] OTHER -> Raise("TypeError")

\* +a
PyPos(a) == IF IsNum(a) THEN Ok(PyInt(Num(a))) ELSE Raise("TypeError")

(***************************************************************************)
(* Syntax trees (the ast module's node classes, by class name).            *)
(***************************************************************************)
Op(k) == [k |-> k]
Load == [k |-> "Load"]
Name(id) == [k |-> "Name", id |-> id]
Constant(v) == [k |-> "Constant", value |-> v]
BoolOp(op, values) == [k |-> "BoolOp", op |-> op, values |-> values]
UnaryOp(op, operand) == [k |-> "UnaryOp", op |-> op, operand |-> operand]
BinOp(left, op, right) == [k |-> "BinOp", left |-> left, op |-> op, right |-> right]
Compare(left, ops, comparators) ==
    [k |-> "Compare", left |-> left, ops |-> ops, comparators |-> comparators]
Subscript(v, slice) == [k |-> "Subscript", value |-> v, slice |-> slice]
Attribute(v, attr) == [k |-> "Attribute", value |-> v, attr |-> attr]
CallNode(func, args) == [k |-> "Call", func |-> func, args |-> args]
ListNode(elts) == [k |-> "List", elts |-> elts]
TupleNode(elts) == [k |-> "Tuple", elts |-> elts]
Expression(body) == [k |-> "Expression", body |-> body]
NoTree == [k |-> "none"]

\* ast.iter_child_nodes(node): the fields of a node that are nodes, in
\* field order (operators and expression contexts are nodes too)
Children(node) ==
    CASE node.k = "Expression" -> <<node.body>>
      [] node.k = "BoolOp" -> <<Op(node.op)>> \o node.values
      [] node.k = "UnaryOp" -> <<Op(node.op), node.operand>>
      [] node.k = "BinOp" -> <<node.left, Op(node.op), node.right>>
      [] node.k = "Compare" ->
            <<node.left>> \o [i \in 1..Len(node.ops) |-> Op(node.ops[i])]
                \o node.comparators
      [] node.k = "Subscript" -> <<node.value, node.slice, Load>>
      [] node.k = "Attribute" -> <<node.value, Load>>
      [] node.k = "Call" -> <<node.func>> \o node.args
      [] node.k \in {"List", "Tuple"} -> node.elts \o <<Load>>
      [] node.k = "Name" -> <<Load>>
      [] OTHER -> <<>>

(***************************************************************************)
(* class SafeAttrs(dict)                                                   *)
(***************************************************************************)
SafeAttrs__missing__(key) == None

\* a name that is no key of a plain dict of locals, with no builtins
LoadName_NameError(locals, id) ==
    IF id \in DOMAIN locals THEN Ok(locals[id]) ELSE Raise("NameError")

\* the name lookup of the evaluated code in SafeAttrs(attributes)
LoadName(locals, id) ==
    IF id \in DOMAIN locals THEN Ok(locals[id]) ELSE Ok(SafeAttrs__missing__(id))

(***************************************************************************)
(* class SafeEvalVisitor(ast.NodeVisitor)                                  *)
(***************************************************************************)
\* an allow-list without subscripts
ALLOWED_NODES_no_subscript ==
    {"Expression", "BoolOp", "BinOp", "UnaryOp", "Compare", "Name", "Load",
     "Constant", "And", "Or", "Not", "Eq", "NotEq", "In", "NotIn", "Gt", "GtE",
     "Lt", "LtE", "Index", "Str", "List", "Tuple", "Dict"}

ALLOWED_NODES ==
    {"Expression", "BoolOp", "BinOp", "UnaryOp", "Compare", "Name", "Load",
     "Constant", "And", "Or", "Not", "Eq", "NotEq", "In", "NotIn", "Gt", "GtE",
     "Lt", "LtE", "Subscript", "Index", "Str", "List", "Tuple", "Dict"}

\* self.names after visit_Name(node)
visit_Name(self_names, node) ==
    IF node.id \notin DOMAIN self_names
    THEN [n \in DOMAIN self_names \cup {node.id} |->
             IF n = node.id THEN None ELSE self_names[n]]
    ELSE self_names

RECURSIVE visit(_, _)
RECURSIVE visit_children(_, _, _)

\* the isinstance test of generic_visit
IsAllowed(node) == node.k \in ALLOWED_NODES

\* a generic_visit that checks the node and does not walk its children
generic_visit_no_children(self_names, node) ==
    IF ~IsAllowed(node) THEN [err |-> "ValueError", names |-> self_names]
    ELSE [err |-> "none", names |-> self_names]

\* generic_visit(node): [err, names]
generic_visit(self_names, node) ==
    IF ~IsAllowed(node) THEN [err |-> "ValueError", names |-> self_names]
    ELSE visit_children(self_names, Children(node), 1)

\* NodeVisitor.visit: visit_Name for a Name, generic_visit for the rest
visit(self_names, node) ==
    IF node.k = "Name" THEN [err |-> "none", names |-> visit_Name(self_names, node)]
    ELSE generic_visit(self_names, node)

\* NodeVisitor.generic_visit: visit every child, stop at the first raise
visit_children(self_names, kids, i) ==
    IF i > Len(kids) THEN [err |-> "none", names |-> self_names]
    ELSE LET r == visit(self_names, kids[i])
         IN  IF r.err # "none" THEN r
             ELSE visit_children(r.names, kids, i + 1)

(***************************************************************************)
(* eval(compiled, {"__builtins__": {}}, locals): the value of the tree, or *)
(* the exception its evaluation raises.                                    *)
(***************************************************************************)
RECURSIVE Eval(_, _)
RECURSIVE EvalSeq(_, _, _, _, _)
RECURSIVE EvalBoolOp(_, _, _, _, _)
RECURSIVE EvalCompare(_, _, _, _, _, _)

\* the values of nodes[i..], in order, appended to acc
EvalSeq(nodes, i, acc, ev, locals) ==
    IF i > Len(nodes) THEN With(Ok(PyTuple(acc)), ev)
    ELSE LET r == With(Eval(nodes[i], locals), ev)
         IN  IF r.err # "none" THEN r
             ELSE EvalSeq(nodes, i + 1, Append(acc, r.val), r.ev, locals)

\* and/or: the first operand that decides, or the last one
EvalBoolOp(op, values, i, ev, locals) ==
    LET r == With(Eval(values[i], locals), ev)
    IN  IF r.err # "none" \/ i = Len(values) THEN r
        ELSE IF op = "And" /\ ~Truthy(r.val) THEN r
        ELSE IF op = "Or" /\ Truthy(r.val) THEN r
        ELSE EvalBoolOp(op, values, i + 1, r.ev, locals)

\* one comparison operator applied to two values
CompareOp(op, a, b) ==
    CASE op = "Eq" -> Ok(PyBool(PyEq(a, b)))
      [] op = "NotEq" -> Ok(PyBool(~PyEq(a, b)))
      [] op \in OrderOps -> PyOrder(op, a, b)
      [] op = "In" -> PyContains(b, a)
      [] op = "NotIn" ->
            LET r == PyContains(b, a)
            IN  IF r.err # "none" THEN r ELSE Ok(PyBool(~r.val.v))

\* a chain  left op1 c1 op2 c2 ...: stops at the first false comparison
EvalCompare(left, ops, comparators, i, ev, locals) ==
    LET r == With(Eval(comparators[i], locals), ev)
    IN  IF r.err # "none" THEN r
        ELSE LET c == With(CompareOp(ops[i], left, r.val),
                           r.ev \cup {CompareEvent(ops[i], left, r.val)})
             IN  IF c.err # "none" \/ i = Len(ops) \/ ~Truthy(c.val) THEN c
                 ELSE EvalCompare(r.val, ops, comparators, i + 1, c.ev, locals)

Eval(node, locals) ==
    CASE node.k = "Expression" -> Eval(node.body, locals)
      [] node.k = "Constant" -> Ok(node.value)
      [] node.k = "Name" ->
            LET r == LoadName(locals, node.id)
            IN  With(r, {LoadEvent(node.id, r.val)})
      [] node.k = "BoolOp" -> EvalBoolOp(node.op, node.values, 1, {}, locals)
      [] node.k = "UnaryOp" ->
            LET r == Eval(node.operand, locals)
            IN  IF r.err # "none" THEN r
                ELSE IF node.op = "Not" THEN With(Ok(PyBool(~Truthy(r.val))), r.ev)
                ELSE With(PyPos(r.val), r.ev)
      [] node.k = "BinOp" ->
            LET a == Eval(node.left, locals)
            IN  IF a.err # "none" THEN a
                ELSE LET b == With(Eval(node.right, locals), a.ev)
                     IN  IF b.err # "none" THEN b
                         ELSE With(PyAdd(a.val, b.val), b.ev)
      [] node.k = "Compare" ->
            LET a == Eval(node.left, locals)
            IN  IF a.err # "none" THEN a
                ELSE EvalCompare(a.val, node.ops, node.comparators, 1, a.ev, locals)
      [] node.k = "Subscript" ->
            LET a == Eval(node.value, locals)
            IN  IF a.err # "none" THEN a
                ELSE LET b == With(Eval(node.slice, locals), a.ev)
                     IN  IF b.err # "none" THEN b
                         ELSE With(PySubscript(a.val, b.val), b.ev)
      [] node.k = "Attribute" ->
            LET a == Eval(node.value, locals)
            IN  IF a.err # "none" THEN a ELSE With(Raise("AttributeError"), a.ev)
      [] node.k = "Call" ->
            LET f == Eval(node.func, locals)
            IN  IF f.err # "none" THEN f
                ELSE LET a == EvalSeq(node.args, 1, <<>>, f.ev, locals)
                     IN  IF a.err # "none" THEN a
                         ELSE With(Raise("TypeError"), a.ev)
      [] node.k \in {"List", "Tuple"} ->
            LET r == EvalSeq(node.elts, 1, <<>>, {}, locals)
            IN  IF r.err # "none" THEN r
                ELSE IF node.k = "List" THEN With(Ok(PyList(r.val.v)), r.ev)
                ELSE r

(***************************************************************************)
(* ast.parse(expression, mode="eval") on a sequence of lexemes.            *)
(***************************************************************************)
Blank == " "
NameLexemes == {"role", "level"}
ConstLexemes == {"None", "True", "0", "1", "3", "'p'", "'pro'", "'k'"}
StringLexemes == {"'p'", "'pro'", "'k'"}
CompareLexemes == {"==", "!=", "<", "<=", ">", ">=", "in"}
Lexemes ==
    {Blank} \cup NameLexemes \cup ConstLexemes \cup CompareLexemes
        \cup {"not", "and", "or", "+", "(", ")", "[", "]", ",", "."}

\* the value a literal denotes
LexemeValue(l) ==
    CASE l = "None" -> None
      [] l = "True" -> PyBool(TRUE)
      [] l = "0" -> PyInt(0)
      [] l = "1" -> PyInt(1)
      [] l = "3" -> PyInt(3)
      [] l = "'p'" -> PyStr(s_p)
      [] l = "'pro'" -> PyStr(s_pro)
      [] l = "'k'" -> PyStr(s_k)

CompareOpOf(l) ==
    CASE l = "==" -> "Eq"
      [] l = "!=" -> "NotEq"
      [] l = "<" -> "Lt"
      [] l = "<=" -> "LtE"
      [] l = ">" -> "Gt"
      [] l = ">=" -> "GtE"
      [] l = "in" -> "In"

\* str.strip(): the string without its leading and trailing blanks
RECURSIVE LStrip(_)
LStrip(s) == IF s # <<>> /\ Head(s) = Blank THEN LStrip(Tail(s)) ELSE s
RECURSIVE RStrip(_)
RStrip(s) ==
    IF s # <<>> /\ s[Len(s)] = Blank THEN RStrip(SubSeq(s, 1, Len(s) - 1)) ELSE s
Strip(s) == RStrip(LStrip(s))

\* the tokens of a string: its lexemes without the blanks
Tokens(s) == SelectSeq(s, LAMBDA l : l # Blank)

\* the token at position p, "" past the end
Tok(t, p) == IF p <= Len(t) THEN t[p] ELSE ""

Fail == [ok |-> FALSE, node |-> NoTree, pos |-> 0]
Got(node, p) == [ok |-> TRUE, node |-> node, pos |-> p]
FailList == [ok |-> FALSE, elts |-> <<>>, pos |-> 0, comma |-> FALSE]

\* The recursive-descent parser.  P(nt, t, p, x) parses the nonterminal nt
\* in the token sequence t from position p; x holds what the rule has
\* collected so far.  It yields [ok, node, pos], and for "exprs"
\* [ok, elts, pos, comma].
RECURSIVE P(_, _, _, _)
P(nt, t, p, x) ==
    CASE nt = "disjunction" ->
            \* disjunction: conjunction ('or' conjunction)*
            LET r == P("conjunction", t, p, <<>>)
            IN  IF ~r.ok THEN Fail ELSE P("bool_rest", t, r.pos, <<"or", <<r.node>>>>)
      [] nt = "conjunction" ->
            \* conjunction: inversion ('and' inversion)*
            LET r == P("inversion", t, p, <<>>)
            IN  IF ~r.ok THEN Fail ELSE P("bool_rest", t, r.pos, <<"and", <<r.node>>>>)
      [] nt = "bool_rest" ->
            \* the operands after the first of an and/or chain: one n-ary BoolOp
            LET kw == x[1]
                acc == x[2]
            IN  IF Tok(t, p) = kw
                THEN LET r == P(IF kw = "or" THEN "conjunction" ELSE "inversion",
                                t, p + 1, <<>>)
                     IN  IF ~r.ok THEN Fail
                         ELSE P("bool_rest", t, r.pos, <<kw, Append(acc, r.node)>>)
                ELSE IF Len(acc) = 1 THEN Got(acc[1], p)
                ELSE Got(BoolOp(IF kw = "or" THEN "Or" ELSE "And", acc), p)
      [] nt = "inversion" ->
            \* inversion: 'not' inversion | comparison
            IF Tok(t, p) = "not"
            THEN LET r == P("inversion", t, p + 1, <<>>)
                 IN  IF ~r.ok THEN Fail ELSE Got(UnaryOp("Not", r.node), r.pos)
            ELSE LET r == P("sum", t, p, <<>>)
                 IN  IF ~r.ok THEN Fail
                     ELSE P("compare_rest", t, r.pos, <<r.node, <<>>, <<>>>>)
      [] nt = "compare_rest" ->
            \* comparison: sum (compare_op sum)*
            LET left == x[1]
                ops == x[2]
                comparators == x[3]
                isNotIn == Tok(t, p) = "not" /\ Tok(t, p + 1) = "in"
            IN  IF Tok(t, p) \in CompareLexemes \/ isNotIn
                THEN LET op == IF isNotIn THEN "NotIn" ELSE CompareOpOf(Tok(t, p))
                         r == P("sum", t, IF isNotIn THEN p + 2 ELSE p + 1, <<>>)
                     IN  IF ~r.ok THEN Fail
                         ELSE P("compare_rest", t, r.pos,
                                <<left, Append(ops, op), Append(comparators, r.node)>>)
                ELSE IF ops = <<>> THEN Got(left, p)
                ELSE Got(Compare(left, ops, comparators), p)
      [] nt = "sum" ->
            \* sum: sum '+' factor | factor
            LET r == P("factor", t, p, <<>>)
            IN  IF ~r.ok THEN Fail ELSE P("sum_rest", t, r.pos, <<r.node>>)
      [] nt = "sum_rest" ->
            IF Tok(t, p) = "+"
            THEN LET r == P("factor", t, p + 1, <<>>)
                 IN  IF ~r.ok THEN Fail
                     ELSE P("sum_rest", t, r.pos, <<BinOp(x[1], "Add", r.node)>>)
            ELSE Got(x[1], p)
      [] nt = "factor" ->
            \* factor: '+' factor | primary
            IF Tok(t, p) = "+"
            THEN LET r == P("factor", t, p + 1, <<>>)
                 IN  IF ~r.ok THEN Fail ELSE Got(UnaryOp("UAdd", r.node), r.pos)
            ELSE LET r == P("atom", t, p, <<>>)
                 IN  IF ~r.ok THEN Fail ELSE P("trailers", t, r.pos, <<r.node>>)
      [] nt = "trailers" ->
            \* primary: atom followed by .NAME, (args) and [slices]
            LET node == x[1]
                a == P("exprs", t, p + 1, <<>>)
            IN  CASE Tok(t, p) = "." ->
                        IF Tok(t, p + 1) \in NameLexemes
                        THEN P("trailers", t, p + 2, <<Attribute(node, Tok(t, p + 1))>>)
                        ELSE Fail
                  [] Tok(t, p) = "(" ->
                        IF Tok(t, p + 1) = ")"
                        THEN P("trailers", t, p + 2, <<CallNode(node, <<>>)>>)
                        ELSE IF a.ok /\ Tok(t, a.pos) = ")"
                        THEN P("trailers", t, a.pos + 1, <<CallNode(node, a.elts)>>)
                        ELSE Fail
                  [] Tok(t, p) = "[" ->
                        IF a.ok /\ Tok(t, a.pos) = "]"
                        THEN P("trailers", t, a.pos + 1,
                               <<Subscript(node,
                                    IF Len(a.elts) = 1 /\ ~a.comma THEN a.elts[1]
                                    ELSE TupleNode(a.elts))>>)
                        ELSE Fail
                  [] OTHER -> Got(node, p)
      [] nt = "strings" ->
            \* adjacent string literals are one constant
            IF Tok(t, p) \in StringLexemes
            THEN P("strings", t, p + 1, <<x[1] \o LexemeValue(Tok(t, p)).v>>)
            ELSE Got(Constant(PyStr(x[1])), p)
      [] nt = "atom" ->
            \* atom: NAME | literal | (group or tuple) | [list]
            LET a == P("exprs", t, p + 1, <<>>)
            IN  CASE Tok(t, p) \in NameLexemes -> Got(Name(Tok(t, p)), p + 1)
                  [] Tok(t, p) \in StringLexemes -> P("strings", t, p, <<<<>>>>)
                  [] Tok(t, p) \in ConstLexemes \ StringLexemes ->
                        Got(Constant(LexemeValue(Tok(t, p))), p + 1)
                  [] Tok(t, p) = "(" ->
                        IF Tok(t, p + 1) = ")" THEN Got(TupleNode(<<>>), p + 2)
                        ELSE IF a.ok /\ Tok(t, a.pos) = ")"
                        THEN Got(IF Len(a.elts) = 1 /\ ~a.comma THEN a.elts[1]
                                 ELSE TupleNode(a.elts), a.pos + 1)
                        ELSE Fail
                  [] Tok(t, p) = "[" ->
                        IF Tok(t, p + 1) = "]" THEN Got(ListNode(<<>>), p + 2)
                        ELSE IF a.ok /\ Tok(t, a.pos) = "]"
                        THEN Got(ListNode(a.elts), a.pos + 1)
                        ELSE Fail
                  [] OTHER -> Fail
      [] nt = "exprs" ->
            \* expression (',' expression)* [',']
            LET r == P("disjunction", t, p, <<>>)
            IN  IF ~r.ok
                THEN IF x = <<>> THEN FailList
                     ELSE [ok |-> TRUE, elts |-> x, pos |-> p, comma |-> TRUE]
                ELSE IF Tok(t, r.pos) = ","
                THEN P("exprs", t, r.pos + 1, Append(x, r.node))
                ELSE [ok |-> TRUE, elts |-> Append(x, r.node), pos |-> r.pos,
                      comma |-> x # <<>>]

\* ast.parse(expression, mode="eval"): [err, tree].  A string that starts
\* with a blank is an IndentationError, a subclass of SyntaxError.
ParseEval(s) ==
    LET t == Tokens(s)
        a == P("exprs", t, 1, <<>>)
    IN  IF s # <<>> /\ Head(s) = Blank THEN [err |-> "SyntaxError", tree |-> NoTree]
        ELSE IF a.ok /\ a.pos = Len(t) + 1
        THEN [err |-> "none",
              tree |-> Expression(IF Len(a.elts) = 1 /\ ~a.comma THEN a.elts[1]
                                  ELSE TupleNode(a.elts))]
        ELSE [err |-> "SyntaxError", tree |-> NoTree]

(***************************************************************************)
(* Inputs of eval_attr_logic: expressions and attribute mappings.          *)
(***************************************************************************)
\* n blanks
RECURSIVE Blanks(_)
Blanks(n) == IF n = 0 THEN <<>> ELSE <<Blank>> \o Blanks(n - 1)

\* every sequence over S of length at most n
RECURSIVE SeqsUpTo(_, _)
SeqsUpTo(S, n) ==
    IF n = 0 THEN {<<>>}
    ELSE LET shorter == SeqsUpTo(S, n - 1)
         IN  shorter \cup {Append(q, x) : q \in shorter, x \in S}

RawLexemes == {Blank, "role", "==", "not", "("}

Operands == {<<"role">>, <<"level">>, <<"None">>, <<"True">>, <<"3">>, <<"'pro'">>}
Lefts == {<<"role">>, <<"level">>, <<"1">>, <<"'p'">>}
Operators == {<<l>> : l \in CompareLexemes} \cup {<<"not", "in">>}
Comparisons == {a \o op \o b : a \in Lefts, op \in Operators, b \in Operands}
Padded ==
    {Blanks(m) \o a \o Blanks(n) : m \in 0..MaxWs, n \in 0..MaxWs,
                                   a \in Operands \cup {<<>>}}
Negated ==
    {<<"not">> \o a \o <<op>> \o b : a \in {<<"role">>, <<"level">>},
                                     op \in {"<", ">=", "in"}, b \in Operands}
Subscripts ==
    {a \o <<"[">> \o i \o <<"]">> :
        a \in {<<"role">>, <<"level">>, <<"[", "'pro'", "]">>, <<"(", "3", ",", ")">>,
               <<"'pro'">>},
        i \in {<<"0">>, <<"1">>, <<"'k'">>, <<"level">>}}
Rights ==
    {<<"level", "<", "'pro'">>, <<"role", "<", "3">>, <<"level", ">=", "3">>,
     <<"level", "in", "3">>, <<"role", "not", "in", "'pro'">>,
     <<"1", "+", "3">>, <<"+", "level">>, <<"role", "(", ")">>,
     <<"role", "(", "level", ")">>, <<"role", ".", "level">>,
     <<"role", "[", "0", "]", "==", "'pro'">>,
     <<"[", "'pro'", ",", "3", "]", "[", "0", "]", "==", "role">>,
     <<"1", "<", "level", "<", "'pro'">>, <<"3", "<", "level", "<", "role">>,
     <<"not", "(", "level", "<", "None", ")">>}
Connected ==
    {a \o <<kw>> \o b : a \in {<<"True">>, <<"None">>, <<"role">>},
                        kw \in {"and", "or"}, b \in Rights}
        \cup {b \o <<kw>> \o a : a \in {<<"True">>, <<"level">>},
                                 kw \in {"and", "or"}, b \in Rights}

Expressions ==
    Padded \cup Comparisons \cup Negated \cup Subscripts \cup Rights \cup Connected
        \cup SeqsUpTo(RawLexemes, MaxRawLen)

\* attribute values the provider supplies: scalars, a list, a mapping
RoleValues ==
    {None, PyStr(s_pro), PyList(<<PyStr(s_pro)>>),
     PyDict([x \in {PyStr(s_k)} |-> PyInt(1)])}
LevelValues == {PyBool(TRUE)} \cup {PyInt(n) : n \in 1..MaxLevel}

\* a mapping with the given keys
AttrMapsOn(D) ==
    {f \in [D -> RoleValues \cup LevelValues] :
        /\ "role" \in D => f["role"] \in RoleValues
        /\ "level" \in D => f["level"] \in LevelValues}
AttrMaps == UNION {AttrMapsOn(D) : D \in SUBSET NameLexemes}

(***************************************************************************)
(* def eval_attr_logic(expression, attributes) -> bool                     *)
(***************************************************************************)
Statements == {"parse", "visit", "compile", "eval"}

\* the object SafeEvalVisitor is constructed on (line 125): the caller's
\* mapping itself
SafeEvalVisitor_on_attributes == "attributes"

\* the object SafeEvalVisitor is constructed on (line 125): attributes.copy()
SafeEvalVisitor_names == "copy"

\* the classes `except Exception` (line 130) catches: every exception the
\* try block raises here is a subclass of Exception
ExceptionClasses ==
    {"SyntaxError", "ValueError", "TypeError", "IndexError", "KeyError",
     "AttributeError", "NameError"}

\* a handler that catches only the validator's ValueError
Caught_ValueError(kind) == kind = "ValueError"

Caught(kind) == kind \in ExceptionClasses

\* a handler that fails open
HandlerResult_allow == "true"

\* line 133: return False
HandlerResult == "false"

\* log("owl", "Error evaluating LMS attribute expression: {err}", err=e):
\* the error is recorded
log(entries, e) == Append(entries, e)

\* a test that forgets the strip(): only the empty string counts
IsBlankExpression_not_stripped(e) == e = <<>>

\* line 120: not expression or not expression.strip()
IsBlankExpression(e) == e = <<>> \/ Strip(e) = <<>>

\* the caller invokes eval_attr_logic(expression, attributes)
Call ==
    /\ pc = "idle"
    /\ expression' \in Expressions
    /\ attributes' \in AttrMaps
    /\ attrs0' = attributes'
    /\ pc' = "check"
    /\ UNCHANGED <<names, tree, value, err, ret, raised, steps, logged>>
    /\ UNCHANGED lmsVars

\* lines 120-121: if not expression or not expression.strip(): return True
CheckEmpty ==
    /\ pc = "check"
    /\ IF IsBlankExpression(expression)
       THEN ret' = "true" /\ pc' = "done"
       ELSE ret' = ret /\ pc' = "parse"
    /\ UNCHANGED <<expression, attributes, attrs0, names, tree, value, err,
                   raised, steps, logged>>
    /\ UNCHANGED lmsVars

\* line 124: tree = ast.parse(expression, mode="eval")
Parse ==
    /\ pc = "parse"
    /\ LET r == ParseEval(expression)
       IN  /\ tree' = r.tree
           /\ err' = r.err
           /\ pc' = IF r.err = "none" THEN "visit" ELSE "except"
    /\ steps' = steps \cup {"parse"}
    /\ UNCHANGED <<expression, attributes, attrs0, names, value, ret, raised, logged>>
    /\ UNCHANGED lmsVars

\* line 125: SafeEvalVisitor(attributes.copy()).visit(tree)
Visit ==
    /\ pc = "visit"
    /\ LET r == visit(attributes, tree)
       IN  /\ names' = r.names
           /\ attributes' = IF SafeEvalVisitor_names = "copy" THEN attributes
                            ELSE r.names
           /\ err' = r.err
           /\ pc' = IF r.err = "none" THEN "compile" ELSE "except"
    /\ steps' = steps \cup {"visit"}
    /\ UNCHANGED <<expression, attrs0, tree, value, ret, raised, logged>>
    /\ UNCHANGED lmsVars

\* line 126: compiled = compile(tree, filename="<attr-logic>", mode="eval")
Compile ==
    /\ pc = "compile"
    /\ pc' = "eval"
    /\ steps' = steps \cup {"compile"}
    /\ UNCHANGED <<expression, attributes, attrs0, names, tree, value, err, ret,
                   raised, logged>>
    /\ UNCHANGED lmsVars

\* line 128: result = eval(compiled, {"__builtins__": {}}, SafeAttrs(attributes))
Evaluate ==
    /\ pc = "eval"
    /\ LET r == Eval(tree, attributes)
       IN  /\ value' = r
           /\ err' = r.err
           /\ pc' = IF r.err = "none" THEN "return" ELSE "except"
    /\ steps' = steps \cup {"eval"}
    /\ UNCHANGED <<expression, attributes, attrs0, names, tree, ret, raised, logged>>
    /\ UNCHANGED lmsVars

\* line 129: return bool(result)
ReturnBool ==
    /\ pc = "return"
    /\ ret' = IF Truthy(value.val) THEN "true" ELSE "false"
    /\ pc' = "done"
    /\ UNCHANGED <<expression, attributes, attrs0, names, tree, value, err,
                   raised, steps, logged>>
    /\ UNCHANGED lmsVars

\* lines 130-133: except Exception as e: log(...); return False
Except ==
    /\ pc = "except"
    /\ IF Caught(err)
       THEN /\ logged' = log(logged, err)
            /\ ret' = HandlerResult
            /\ raised' = raised
       ELSE /\ raised' = err
            /\ UNCHANGED <<logged, ret>>
    /\ pc' = "done"
    /\ UNCHANGED <<expression, attributes, attrs0, names, tree, value, err, steps>>
    /\ UNCHANGED lmsVars

NoValue == [err |-> "none", val |-> None, ev |-> {}]

\* the call is over: nothing of it is kept
Finish ==
    /\ pc = "done"
    /\ pc' = "idle"
    /\ expression' = <<>>
    /\ attributes' = <<>>
    /\ attrs0' = <<>>
    /\ names' = <<>>
    /\ tree' = NoTree
    /\ value' = NoValue
    /\ err' = "none"
    /\ ret' = "unset"
    /\ raised' = "none"
    /\ steps' = {}
    /\ logged' = <<>>
    /\ UNCHANGED lmsVars

EvalInit ==
    /\ pc = "idle"
    /\ expression = <<>>
    /\ attributes = <<>>
    /\ attrs0 = <<>>
    /\ names = <<>>
    /\ tree = NoTree
    /\ value = NoValue
    /\ err = "none"
    /\ ret = "unset"
    /\ raised = "none"
    /\ steps = {}
    /\ logged = <<>>

(***************************************************************************)
(* def get_lms_ctfd_data_for_email(email), under @cache.memoize(timeout=5)  *)
(***************************************************************************)
s_attributes == <<97, 116, 116, 114, 105, 98, 117, 116, 101, 115>>
s_active_attempt_task_ids == <<97, 99, 116, 105, 118, 101, 95, 97, 116, 116, 101, 109, 112, 116, 95, 116, 97, 115, 107, 95, 105, 100, 115>>

\* os.getenv of a variable that is not set
Unset == <<"<unset>">>

\* str.rstrip("/")
RECURSIVE RStripSlash(_)
RStripSlash(u) ==
    IF u # <<>> /\ u[Len(u)] = "/" THEN RStripSlash(SubSeq(u, 1, Len(u) - 1)) ELSE u

\* urllib.parse.quote(email, safe=""): reserved characters are percent-encoded
RECURSIVE Quote(_)
Quote(e) ==
    IF e = <<>> THEN <<>>
    ELSE (CASE Head(e) = "@" -> <<"%", "4", "0">>
            [] Head(e) = "/" -> <<"%", "2", "F">>
            [] OTHER -> <<Head(e)>>) \o Quote(Tail(e))

\* lines 37-43: the request sent to the LMS
Request(base_url, token, email) ==
    [url |-> RStripSlash(base_url) \o <<"/", "account", "/">> \o Quote(email)
                \o <<"/", "ctfd-data">>,
     headers |-> [Accept |-> "application/json", X_CTFd_Token |-> token]]

\* dict.get(key): the value, or None
DictGet(d, key) == IF PyStr(key) \in DOMAIN d.v THEN d.v[PyStr(key)] ELSE None

Returned(v) == [kind |-> "return", exc |-> "none", value |-> v]
Raised(exc) == [kind |-> "raise", exc |-> exc, value |-> <<>>]

\* lines 58-62: normalisation of the decoded body
Normalize(data) ==
    IF data.t # "dict" THEN Raised("AttributeError")
    ELSE LET a == DictGet(data, s_attributes)
             i == DictGet(data, s_active_attempt_task_ids)
             attr == IF Truthy(a) THEN a ELSE PyDict(<<>>)
             task_ids == IF Truthy(i) THEN i ELSE PyList(<<>>)
         IN  IF attr.t # "dict" \/ task_ids.t # "list" THEN Raised("LMSUnavailable")
             ELSE Returned([attributes |-> attr, active_attempt_task_ids |-> task_ids])

\* lines 29-62: the body of the function, given what the network answers
get_lms_ctfd_data_for_email(env, email, net) ==
    IF env.base_url \in {Unset, <<>>} \/ env.token \in {Unset, <<>>}
    THEN Raised("LMSUnavailable")
    ELSE IF net.exc THEN Raised("LMSUnavailable")
    ELSE IF net.status_code # 200 THEN Raised("LMSUnavailable")
    ELSE IF ~net.valid THEN Raised("LMSUnavailable")
    ELSE Normalize(net.data)

\* inputs: the environment, the emails, what the network answers
BaseUrls == {Unset, <<>>, <<"h", "/">>}
TokenValues == {Unset, <<"t">>}
Emails == {<<"a">>, <<"a", "@", "b">>}
AttributesFields ==
    {None, PyDict(<<>>), PyDict([x \in {PyStr(s_pro)} |-> PyInt(1)]), PyStr(s_pro),
     PyList(<<PyInt(3)>>)}
TaskIdsFields ==
    {None, PyList(<<>>), PyList(<<PyInt(1)>>), PyDict([x \in {PyStr(s_k)} |-> PyInt(1)]),
     PyInt(0), PyStr(s_pro)}
\* a JSON object with the given fields
Payload(a, i) ==
    LET D == (IF a = <<>> THEN {} ELSE {PyStr(s_attributes)})
                \cup (IF i = <<>> THEN {} ELSE {PyStr(s_active_attempt_task_ids)})
    IN  PyDict([x \in D |-> IF x = PyStr(s_attributes) THEN a ELSE i])
Bodies ==
    {Payload(a, i) : a \in AttributesFields \cup {<<>>}, i \in TaskIdsFields \cup {<<>>}}
        \cup {None, PyInt(1), PyStr(s_pro), PyList(<<>>), PyList(<<PyInt(1)>>)}
NetOutcomes ==
    {[exc |-> TRUE, status_code |-> 0, valid |-> FALSE, data |-> None]}
        \cup {[exc |-> FALSE, status_code |-> c, valid |-> FALSE, data |-> None] :
                c \in {200, 404}}
        \cup {[exc |-> FALSE, status_code |-> c, valid |-> TRUE, data |-> d] :
                c \in {200, 404}, d \in Bodies}

\* a call of the memoized function: a cached result is handed back, else
\* the function runs, and what it returns (not what it raises) is cached
Fetch ==
    \E email \in Emails, net \in NetOutcomes :
        IF email \in DOMAIN cache
        THEN /\ lms_in' = [email |-> email, hit |-> TRUE, request |-> <<>>, net |-> <<>>]
             /\ lms_out' = Returned(cache[email])
             /\ cache' = cache
             /\ UNCHANGED lms_env
             /\ UNCHANGED evalVars
        ELSE LET out == get_lms_ctfd_data_for_email(lms_env, email, net)
                 sent == lms_env.base_url \notin {Unset, <<>>}
                            /\ lms_env.token \notin {Unset, <<>>}
             IN  /\ lms_in' = [email |-> email, hit |-> FALSE,
                               request |-> IF sent
                                           THEN Request(lms_env.base_url,
                                                        lms_env.token, email)
                                           ELSE <<>>,
                               net |-> IF sent THEN net ELSE <<>>]
                 /\ lms_out' = out
                 /\ cache' = IF out.kind = "return"
                             THEN [e \in DOMAIN cache \cup {email} |->
                                      IF e = email THEN out.value ELSE cache[e]]
                             ELSE cache
                 /\ UNCHANGED lms_env
                 /\ UNCHANGED evalVars

\* timeout=5: a cached entry expires
Expire ==
    \E email \in DOMAIN cache :
        /\ cache' = [e \in DOMAIN cache \ {email} |-> cache[e]]
        /\ UNCHANGED <<lms_env, lms_in, lms_out>>
        /\ UNCHANGED evalVars

NoCall == [email |-> <<>>, hit |-> FALSE, request |-> <<>>, net |-> <<>>]
NoOutcome == [kind |-> "none", exc |-> "none", value |-> <<>>]

LmsIdle ==
    /\ lms_in = NoCall
    /\ lms_out = NoOutcome
    /\ cache = <<>>

\* the evaluator on its own: the provider is not configured and not called
Init ==
    /\ EvalInit
    /\ lms_env = [base_url |-> Unset, token |-> Unset]
    /\ LmsIdle

Next ==
    \/ Call
    \/ CheckEmpty
    \/ Parse
    \/ Visit
    \/ Compile
    \/ Evaluate
    \/ ReturnBool
    \/ Except
    \/ Finish

Spec == Init /\ [][Next]_vars

\* the provider on its own, under every environment
InitLMS ==
    /\ EvalInit
    /\ lms_env \in [base_url : BaseUrls, token : TokenValues]
    /\ LmsIdle

NextLMS ==
    \/ Fetch
    \/ Expire

SpecLMS == InitLMS /\ [][NextLMS]_vars

(***************************************************************************)
(* Properties.                                                             *)
(***************************************************************************)
\* every node of a tree, the root first
RECURSIVE Flatten(_)
RECURSIVE FlattenAll(_, _)
Flatten(node) == <<node>> \o FlattenAll(Children(node), 1)
FlattenAll(kids, i) ==
    IF i > Len(kids) THEN <<>> ELSE Flatten(kids[i]) \o FlattenAll(kids, i + 1)

Parsed == tree.k = "Expression"
\* every node of the parsed tree is in the allow-list
AllNodesAllowed ==
    \A i \in 1..Len(Flatten(tree)) : Flatten(tree)[i].k \in ALLOWED_NODES
WhitespaceOnly(e) == \A i \in 1..Len(e) : e[i] = Blank
Done == pc = "done"
Compared == {e \in value.ev : e.e = "compare"}
Loaded == {e \in value.ev : e.e = "load"}

\* C1: a call with a non-blank expression returns true only if the
\* expression parsed, every node of the tree is in the allow-list and the
\* evaluation completed with a truthy value; when a step fails it returns false.
FailClosed ==
    (Done /\ ~WhitespaceOnly(expression)) =>
        /\ ret = "true" =>
              /\ Parsed
              /\ AllNodesAllowed
              /\ steps = Statements
              /\ err = "none"
              /\ value.err = "none"
              /\ Truthy(value.val)
        /\ err # "none" => ret = "false"
        /\ ret \in {"true", "false"}

FailClosedWitness ==
    /\ Done
    /\ ~WhitespaceOnly(expression)
    /\ "eval" \in steps
    /\ err = "TypeError"
    /\ ret = "false"

\* C2: for the empty and for every whitespace-only expression the call
\* returns true whatever the attributes, without parsing, validating or
\* evaluating; no other call returns true without an evaluation.
BlankAllows ==
    Done =>
        /\ WhitespaceOnly(expression) =>
              ret = "true" /\ steps = {} /\ tree = NoTree /\ value = NoValue
        /\ (ret = "true" /\ "eval" \notin steps) => WhitespaceOnly(expression)

BlankAllowsWitness ==
    /\ Done
    /\ expression = <<Blank>>
    /\ DOMAIN attributes = NameLexemes
    /\ ret = "true"

\* C3: no exception leaves eval_attr_logic: whichever step fails, the
\* error is logged and the call returns false.
NeverRaises ==
    /\ raised = "none"
    /\ Done =>
          /\ ret \in {"true", "false"}
          /\ err # "none" => logged = <<err>> /\ ret = "false"
          /\ err = "none" => logged = <<>>

NeverRaisesWitness ==
    /\ Done
    /\ err = "IndexError"
    /\ logged = <<"IndexError">>
    /\ raised = "none"
    /\ ret = "false"

\* C4: when a node of the parsed tree is outside the allow-list, nothing is
\* compiled or evaluated and the call returns false, also when the node is in
\* an operand that short-circuit evaluation would not reach.
ValidationPrecedesEvaluation ==
    (Parsed /\ ~AllNodesAllowed) =>
        /\ "compile" \notin steps
        /\ "eval" \notin steps
        /\ value = NoValue
        /\ pc \notin {"compile", "eval", "return"}
        /\ Done => ret = "false" /\ err = "ValueError"

ValidationPrecedesEvaluationWitness ==
    /\ Done
    /\ Parsed
    /\ tree.body.k = "BoolOp"
    /\ tree.body.op = "Or"
    /\ tree.body.values[1] = Constant(PyBool(TRUE))
    /\ tree.body.values[2].k \in {"BinOp", "Call", "Attribute"}
    /\ ret = "false"

\* C5: a name that is no key of the caller's mapping evaluates to None and
\* no NameError is raised; an expression that is only such a name returns
\* false; the default comes from the lookup, not from the validator's copy,
\* which alone received the None entry.
MissingNameIsNone ==
    /\ err # "NameError"
    /\ \A e \in Loaded :
          e.op \notin DOMAIN attrs0 =>
              /\ e.l = None
              /\ e.op \notin DOMAIN attributes
              /\ e.op \in DOMAIN names /\ names[e.op] = None
    /\ (Done /\ Parsed /\ tree.body.k = "Name" /\ tree.body.id \notin DOMAIN attrs0) =>
          ret = "false" /\ err = "none"
    /\ (Done /\ Parsed /\ tree.body.k = "UnaryOp" /\ tree.body.op = "Not"
            /\ tree.body.operand.k = "Name"
            /\ tree.body.operand.id \notin DOMAIN attrs0) =>
          ret = "true"

MissingNameIsNoneWitness ==
    /\ Done
    /\ tree = Expression(Name("role"))
    /\ "role" \notin DOMAIN attrs0
    /\ LoadEvent("role", None) \in value.ev
    /\ ret = "false"

\* C6: during and after a call the caller's mapping has the keys and the
\* values it had when the call was made.
CallerMappingUnchanged == pc # "idle" => attributes = attrs0

CallerMappingUnchangedWitness ==
    /\ Done
    /\ "visit" \in steps
    /\ DOMAIN names # DOMAIN attrs0
    /\ attributes = attrs0

\* the operand pairs C7 names: a number against a string, None against anything
Unorderable(a, b) ==
    \/ IsNum(a) /\ b.t = "str"
    \/ a.t = "str" /\ IsNum(b)
    \/ a.t = "none"
    \/ b.t = "none"

\* C7: when an ordering comparison is evaluated on operands that cannot be
\* ordered, the call returns false, whatever encloses the comparison.
OrderingMismatchDenies ==
    (Done /\ \E e \in Compared : e.op \in OrderOps /\ Unorderable(e.l, e.r)) =>
        ret = "false" /\ err = "TypeError"

OrderingMismatchDeniesWitness ==
    /\ Done
    /\ Parsed
    /\ tree.body.k = "UnaryOp"
    /\ \E e \in Compared : e.op = "Lt" /\ e.l = None /\ e.r.t = "int"
    /\ ret = "false"

\* C8 as stated: a membership test whose right operand is None, a number, a
\* boolean or a string makes the call return false.
MembershipNeedsCollection ==
    (Done /\ \E e \in Compared :
                e.op \in {"In", "NotIn"} /\ e.r.t \in {"none", "int", "bool", "str"}) =>
        ret = "false" /\ err = "TypeError"

\* C8 amended: a membership test whose right operand is None, a number or a
\* boolean, or is a string while the left operand is not a string, makes the
\* call return false; with a string on both sides it is a substring test.
MembershipOnScalars ==
    Done =>
        /\ \A e \in Compared :
              (e.op \in {"In", "NotIn"}
                  /\ (e.r.t \in {"none", "int", "bool"}
                        \/ (e.r.t = "str" /\ e.l.t # "str"))) =>
                  ret = "false" /\ err = "TypeError"
        /\ (Parsed /\ tree.body.k = "Compare" /\ Len(tree.body.ops) = 1) =>
              \A e \in Compared :
                  (e.op \in {"In", "NotIn"} /\ e.r.t = "str" /\ e.l.t = "str") =>
                      /\ err = "none"
                      /\ ret = "true" <=> (e.op = "In" <=> IsSubstring(e.l.v, e.r.v))

MembershipOnScalarsWitness ==
    /\ Done
    /\ \E e \in Compared :
          e.op = "In" /\ e.l = PyStr(s_p) /\ e.r = PyStr(s_pro)
    /\ ret = "true"

\* C9 as stated: the provider returns a record with a mapping and a list, or
\* fails with LMSUnavailable and with nothing else.
ProviderReturnsOrUnavailable ==
    /\ lms_out.kind = "raise" => lms_out.exc = "LMSUnavailable"
    /\ lms_out.kind = "return" =>
          /\ lms_out.value.attributes.t = "dict"
          /\ lms_out.value.active_attempt_task_ids.t = "list"

\* the value of a name or of a constant under the caller's mapping
AtomValue(n) ==
    IF n.k = "Constant" THEN n.value
    ELSE IF n.id \in DOMAIN attrs0 THEN attrs0[n.id] ELSE None
IsAtom(n) == n.k \in {"Name", "Constant"}
\* the subscripts of the tree whose operand is no list or tuple display
NonLiteralSubscripts ==
    {i \in 1..Len(Flatten(tree)) :
        /\ Flatten(tree)[i].k = "Subscript"
        /\ Flatten(tree)[i].value.k \notin {"List", "Tuple", "Dict"}}

\* C10 as stated: an expression that subscripts anything but a literal
\* list, tuple or mapping is rejected by the validation and the call
\* returns false.
SubscriptOnlyOnLiterals ==
    (Done /\ Parsed /\ NonLiteralSubscripts # {}) =>
        /\ ret = "false"
        /\ err = "ValueError"
        /\ "eval" \notin steps

\* C10 amended: a subscript passes the validation whatever its operand is,
\* a name included; it is then evaluated on the operand's value, and the
\* call returns false only if that raises or the result is falsy.
SubscriptOnAnyOperand ==
    (Done /\ Parsed /\ tree.body.k = "Subscript"
        /\ IsAtom(tree.body.value) /\ IsAtom(tree.body.slice)) =>
        LET r == PySubscript(AtomValue(tree.body.value), AtomValue(tree.body.slice))
        IN  /\ steps = Statements
            /\ err = r.err
            /\ err \in {"none", "TypeError", "IndexError", "KeyError"}
            /\ ret = "true" <=> (r.err = "none" /\ Truthy(r.val))

SubscriptOnAnyOperandWitness ==
    /\ Done
    /\ Parsed
    /\ tree.body.k = "Subscript"
    /\ tree.body.value = Name("role")
    /\ "role" \in DOMAIN attrs0
    /\ ret = "true"

====
